---- MODULE Spec2Model ----
(***************************************************************************)
(* Support tickets of catoo-hub/machka: the ticket/message store           *)
(* (db/dal/support_ticket_dal.py) and the service that wraps each use case *)
(* in one session (bot/services/support_service.py).                       *)
(*                                                                         *)
(* Every service call runs as a process with its own session.  A session   *)
(* keeps its flushed but uncommitted statements in pend[p]; they become    *)
(* part of the committed tables in one step at session.commit() and are    *)
(* dropped when the "async with" block is left by an exception.  Each      *)
(* awaited statement is one step, so calls of different processes          *)
(* interleave between statements.                                          *)
(***************************************************************************)
EXTENDS Integers, Sequences, FiniteSets, TLC

\* ------------------------------------------------------------------ bounds
MaxTickets == 2        \* ticket ids the sequence hands out
MaxMessages == 2       \* rows the support_messages table holds
MaxClock == 2          \* last value of the wall clock
MaxConcurrentTickets == 1   \* the same two, while handlers interleave
MaxConversationTickets == 2 \* tickets, while a conversation is followed
MaxUpdates == 4        \* updates the user of the conversation sends
MaxPairs == 3          \* bot/dispatcher pairs a runner makes
MaxConcurrentMessages == 2

Procs == {"p1", "p2"}  \* concurrently running handlers

\* ------------------------------------------------------ values and inputs
Null == -1             \* Python None in an integer or datetime position
NoneStr == "None"      \* Python None in a string position

UserIds == {Null, 42}
AdminIds == {Null, 7}
Subjects == {<<"H", "i">>}      \* text is a sequence of characters
Contents == {<<"H", "e", "l", "p">>}
Usernames == {NoneStr}
StatusValues == {"open", "closed"}
FormStatusValues == {"open", "closed", "pending"}   \* what a form can post
DesiredStates == {"None", "True", "False"}

\* get_paginated's arguments.  A search text that is empty stands for both
\* None and "": the code tests "if search_query".
Pages == 0..2
PerPages == 1..2
StatusFilters == {NoneStr, "open", "closed"}
StarFilters == {"None", "True", "False"}
SearchQueries == {<<>>, <<"h">>, <<"_">>, <<" ", "i">>}
PaginatedInputs ==
    [page : Pages, per_page : PerPages, status : StatusFilters,
     is_starred : StarFilters, search_query : SearchQueries]

Truthy(x) == x # Null /\ x # 0

VARIABLES
    handlers,      \* the handlers that take calls
    tickets,       \* committed support_tickets rows: ticket_id -> row
    messages,      \* committed support_messages rows, oldest first
    nextTicketId,  \* next value of the ticket_id sequence
    clock,         \* datetime.now(timezone.utc)
    call,          \* per process: the service method running and its arguments
    pc,            \* per process: the statement the method is about to await
    pend,          \* per process: writes flushed in the open transaction
    local,         \* per process: the method's local variables
    result,        \* per process: what the method returned or raised
    fsm,           \* the bot's conversation slot of the user: state and data
    updates,       \* the updates of that user, and the next one to handle
    runner         \* the SupportBotRunner: its settings, bot and dispatcher

vars == <<handlers, tickets, messages, nextTicketId, clock,
          call, pc, pend, local, result, fsm, updates, runner>>

\* The tables are kept smaller while several handlers run.
TicketLimit ==
    IF updates.script # <<>> THEN MaxConversationTickets
    ELSE IF Cardinality(handlers) > 1 THEN MaxConcurrentTickets
    ELSE MaxTickets
MessageLimit ==
    IF Cardinality(handlers) > 1 THEN MaxConcurrentMessages ELSE MaxMessages
TicketIdInputs == 1..TicketLimit

\* ------------------------------------------------------------- the tables
NoTicket == [ticket_id |-> Null]
NoMessage == [ticket_id |-> Null]

\* db.models.SupportTicket(...): the columns the DAL does not pass take
\* their column defaults.
SupportTicket(ticket_id, user_id, subject, priority, status, created_at, last_user_message_at) ==
    [ticket_id |-> ticket_id,
     user_id |-> user_id,
     subject |-> subject,
     priority |-> priority,
     status |-> status,
     is_starred |-> FALSE,
     assigned_admin_id |-> Null,
     created_at |-> created_at,
     updated_at |-> Null,
     closed_at |-> Null,
     last_user_message_at |-> last_user_message_at,
     last_admin_message_at |-> Null]

\* db.models.SupportMessage(...).  A row is identified by its place in the
\* table, which is also the order a ticket's messages are read in.
SupportMessage(ticket_id, sender_type, sender_id, sender_username, content, attachments) ==
    [ticket_id |-> ticket_id,
     sender_type |-> sender_type,
     sender_id |-> sender_id,
     sender_username |-> sender_username,
     content |-> content,
     attachments |-> attachments]

\* ------------------------------------------------- statements of a session
InsertTicket(row) ==
    [kind |-> "insert_ticket", ticket_id |-> row.ticket_id, row |-> row]
InsertMessage(row) ==
    [kind |-> "insert_message", ticket_id |-> row.ticket_id, row |-> row]
UpdateTicket(ticket_id, values) ==
    [kind |-> "update_ticket", ticket_id |-> ticket_id, values |-> values]
DeleteTicket(ticket_id) ==
    [kind |-> "delete_ticket", ticket_id |-> ticket_id]

\* UPDATE ... SET **values on one row
SetValues(row, values) ==
    [f \in DOMAIN row |-> IF f \in DOMAIN values THEN values[f] ELSE row[f]]

\* Messages of a deleted ticket go with it (ON DELETE CASCADE).
CascadeDelete(msgs, ticket_id) ==
    SelectSeq(msgs, LAMBDA m : m.ticket_id # ticket_id)

ApplyWrite_insert_replaces(db, w) ==
    CASE w.kind = "insert_ticket" ->
           [db EXCEPT !.tickets = (w.ticket_id :> w.row) @@ @]
      [] w.kind = "insert_message" ->
           [db EXCEPT !.messages =
               Append(CascadeDelete(@, w.ticket_id), w.row)]
      [] w.kind = "update_ticket" ->
           IF w.ticket_id \in DOMAIN db.tickets
           THEN [db EXCEPT !.tickets[w.ticket_id] = SetValues(@, w.values)]
           ELSE db
      [] w.kind = "delete_ticket" ->
           [tickets |-> [i \in DOMAIN db.tickets \ {w.ticket_id} |->
                            db.tickets[i]],
            messages |-> CascadeDelete(db.messages, w.ticket_id)]

\* One flushed statement reaching the tables.
ApplyWrite(db, w) ==
    CASE w.kind = "insert_ticket" ->
           [db EXCEPT !.tickets = (w.ticket_id :> w.row) @@ @]
      [] w.kind = "insert_message" ->
           [db EXCEPT !.messages = Append(@, w.row)]
      [] w.kind = "update_ticket" ->
           IF w.ticket_id \in DOMAIN db.tickets
           THEN [db EXCEPT !.tickets[w.ticket_id] = SetValues(@, w.values)]
           ELSE db
      [] w.kind = "delete_ticket" ->
           [tickets |-> [i \in DOMAIN db.tickets \ {w.ticket_id} |->
                            db.tickets[i]],
            messages |-> CascadeDelete(db.messages, w.ticket_id)]

RECURSIVE ApplyAll(_, _)
ApplyAll(db, ws) ==
    IF ws = <<>> THEN db ELSE ApplyAll(ApplyWrite(db, Head(ws)), Tail(ws))

Committed == [tickets |-> tickets, messages |-> messages]

\* What the statements of p's session read: the committed rows overlaid with
\* the session's own flushed writes.
View(p) == ApplyAll(Committed, pend[p])

MessagesOf(db, ticket_id) ==
    SelectSeq(db.messages, LAMBDA m : m.ticket_id = ticket_id)

\* Rows of support_messages, committed or flushed by an open session.
InsertsOf(q) == SelectSeq(pend[q], LAMBDA w : w.kind = "insert_message")
RECURSIVE SumInserts(_)
SumInserts(ps) ==
    IF ps = {} THEN 0
    ELSE LET q == CHOOSE x \in ps : TRUE
         IN Len(InsertsOf(q)) + SumInserts(ps \ {q})
MessageRows == Len(messages) + SumInserts(Procs)

\* Row locks held until the end of the transaction.
HoldsRowLock(q, ticket_id) ==
    \E i \in 1..Len(pend[q]) :
        /\ pend[q][i].kind \in {"update_ticket", "delete_ticket"}
        /\ pend[q][i].ticket_id = ticket_id
HoldsKeyShare(q, ticket_id) ==
    \E i \in 1..Len(pend[q]) :
        /\ pend[q][i].kind = "insert_message"
        /\ pend[q][i].ticket_id = ticket_id

CanUpdate(p, ticket_id) ==
    \A q \in Procs \ {p} : ~HoldsRowLock(q, ticket_id)
CanDelete(p, ticket_id) ==
    \A q \in Procs \ {p} :
        ~HoldsRowLock(q, ticket_id) /\ ~HoldsKeyShare(q, ticket_id)

ForeignKeyHolds_unchecked(db, ticket_id) == TRUE

\* support_messages.ticket_id references support_tickets.ticket_id
ForeignKeyHolds(db, ticket_id) == ticket_id \in DOMAIN db.tickets

\* ---------------------------------------------------------------- the DAL
create_support_ticket_closed(ticket_id, user_id, subject, priority, now) ==
    SupportTicket(ticket_id, user_id, subject, priority, "closed", now,
                  IF Truthy(user_id) THEN now ELSE Null)

create_support_ticket(ticket_id, user_id, subject, priority, now) ==
    SupportTicket(ticket_id, user_id, subject, priority, "open", now,
                  IF Truthy(user_id) THEN now ELSE Null)

add_support_message_fields_swapped(sender_type, now) ==
    IF sender_type = "user"
    THEN [updated_at |-> now, last_admin_message_at |-> now]
    ELSE [updated_at |-> now, last_user_message_at |-> now]

add_support_message_fields_no_updated_at(sender_type, now) ==
    IF sender_type = "user"
    THEN [last_user_message_at |-> now]
    ELSE [last_admin_message_at |-> now]

add_support_message_fields(sender_type, now) ==
    IF sender_type = "user"
    THEN [updated_at |-> now, last_user_message_at |-> now]
    ELSE [updated_at |-> now, last_admin_message_at |-> now]

\* The writes add_support_message flushes: the INSERT (autoflushed before the
\* UPDATE runs) and the UPDATE of the owning ticket, which matches no row
\* when the ticket is not there.
add_support_message(db, ticket_id, sender_type, sender_id, content, sender_username, now) ==
    <<InsertMessage(SupportMessage(ticket_id, sender_type,
                                   sender_id, sender_username, content,
                                   NoneStr))>>
    \o (IF ticket_id \in DOMAIN db.tickets
        THEN <<UpdateTicket(ticket_id,
                            add_support_message_fields(sender_type, now))>>
        ELSE <<>>)

get_ticket_by_id(db, ticket_id) ==
    IF ticket_id \in DOMAIN db.tickets THEN db.tickets[ticket_id] ELSE NoTicket

\* ticket.messages of a loaded ticket
WithMessages(db, ticket) ==
    IF ticket = NoTicket THEN NoTicket
    ELSE ticket @@ [messages |-> MessagesOf(db, ticket.ticket_id)]

update_ticket_status_values_keep_closed_at(new_status, admin_id, now) ==
    [status |-> new_status, updated_at |-> now]
    @@ (IF new_status = "closed" THEN [closed_at |-> now] ELSE <<>>)
    @@ (IF admin_id # Null THEN [assigned_admin_id |-> admin_id] ELSE <<>>)

update_ticket_status_values_keep_updated_at(new_status, admin_id, now) ==
    [status |-> new_status,
     closed_at |-> IF new_status = "closed" THEN now ELSE Null]
    @@ (IF admin_id # Null THEN [assigned_admin_id |-> admin_id] ELSE <<>>)

update_ticket_status_values_always_assigns(new_status, admin_id, now) ==
    [status |-> new_status,
     updated_at |-> now,
     closed_at |-> IF new_status = "closed" THEN now ELSE Null,
     assigned_admin_id |-> admin_id]

update_ticket_status_values(new_status, admin_id, now) ==
    [status |-> new_status,
     updated_at |-> now,
     closed_at |-> IF new_status = "closed" THEN now ELSE Null]
    @@ (IF admin_id # Null THEN [assigned_admin_id |-> admin_id] ELSE <<>>)

update_ticket_status(db, ticket_id, new_status, admin_id, now) ==
    IF ticket_id \in DOMAIN db.tickets
    THEN <<UpdateTicket(ticket_id, update_ticket_status_values(
                                       new_status, admin_id, now))>>
    ELSE <<>>

toggle_ticket_star_new_state_no_flip(ticket, desired_state) ==
    desired_state = "True"

toggle_ticket_star_new_state_always_flips(ticket, desired_state) ==
    ~ticket.is_starred

toggle_ticket_star_new_state(ticket, desired_state) ==
    IF desired_state # "None" THEN desired_state = "True"
    ELSE ~ticket.is_starred

assign_ticket_sets_user(db, ticket_id, admin_id, now) ==
    IF ticket_id \in DOMAIN db.tickets
    THEN <<UpdateTicket(ticket_id,
                        [user_id |-> admin_id, updated_at |-> now])>>
    ELSE <<>>

assign_ticket_reopens(db, ticket_id, admin_id, now) ==
    IF ticket_id \in DOMAIN db.tickets
    THEN <<UpdateTicket(ticket_id,
                        [assigned_admin_id |-> admin_id, updated_at |-> now,
                         status |-> "open"])>>
    ELSE <<>>

assign_ticket(db, ticket_id, admin_id, now) ==
    IF ticket_id \in DOMAIN db.tickets
    THEN <<UpdateTicket(ticket_id,
                        [assigned_admin_id |-> admin_id, updated_at |-> now])>>
    ELSE <<>>

delete_ticket_no_row(db, ticket_id) == <<>>

delete_ticket(db, ticket_id) ==
    IF ticket_id \in DOMAIN db.tickets
    THEN <<DeleteTicket(ticket_id)>>
    ELSE <<>>

\* ------------------------------------------------------------ the queries
Max(a, b) == IF a >= b THEN a ELSE b
Min(a, b) == IF a <= b THEN a ELSE b

\* The ORDER BY of get_tickets_paginated.  The modifiers of a key are listed
\* in the order the expression applies them, which is the order they are
\* rendered in: desc(updated_at.nullslast()) is "updated_at NULLS LAST DESC".
OrderBy ==
    <<[column |-> "status", modifiers |-> <<"ASC">>],
      [column |-> "is_starred", modifiers |-> <<"DESC">>],
      [column |-> "updated_at", modifiers |-> <<"NULLS LAST", "DESC">>],
      [column |-> "created_at", modifiers |-> <<"DESC">>]>>

\* SQL's sort key: expression [ASC | DESC] [NULLS FIRST | NULLS LAST]
SortKeyInGrammar(modifiers) ==
    \/ Len(modifiers) <= 1
    \/ /\ Len(modifiers) = 2
       /\ modifiers[1] \in {"ASC", "DESC"}
       /\ modifiers[2] \in {"NULLS FIRST", "NULLS LAST"}

\* What the database makes of the statement.  A statement whose sort keys
\* are all in the grammar is executed.  One with a key outside it is refused
\* by a database that parses the key strictly and executed by one that takes
\* the modifiers in either order; the database is configured outside this
\* code.
StatementVerdicts(order_by) ==
    IF \A i \in DOMAIN order_by : SortKeyInGrammar(order_by[i].modifiers)
    THEN {"executed"}
    ELSE {"executed", "refused"}

HasModifier(key, m) == \E i \in DOMAIN key.modifiers : key.modifiers[i] = m

\* The place of a column's value in the column's order.  status is compared
\* as text ("closed" < "open" < "pending"), is_starred as false < true,
\* the time stamps as times.
ColumnRank(column, row) ==
    CASE column = "status" ->
           (CASE row.status = "closed" -> 0
              [] row.status = "open" -> 1
              [] OTHER -> 2)
      [] column = "is_starred" -> (IF row.is_starred THEN 1 ELSE 0)
      [] OTHER -> row[column]
ColumnIsNull(column, row) ==
    column \in {"updated_at", "created_at"} /\ row[column] = Null

\* Row a sorts strictly before row b by one key.  Without NULLS FIRST or
\* NULLS LAST a null counts as larger than every value.
KeyPrecedes(key, a, b) ==
    LET descending == HasModifier(key, "DESC")
        nulls_last == IF HasModifier(key, "NULLS LAST") THEN TRUE
                      ELSE IF HasModifier(key, "NULLS FIRST") THEN FALSE
                      ELSE ~descending
        a_null == ColumnIsNull(key.column, a)
        b_null == ColumnIsNull(key.column, b)
    IN IF a_null \/ b_null
       THEN IF nulls_last THEN ~a_null /\ b_null ELSE a_null /\ ~b_null
       ELSE IF descending
            THEN ColumnRank(key.column, a) > ColumnRank(key.column, b)
            ELSE ColumnRank(key.column, a) < ColumnRank(key.column, b)

\* Row a sorts strictly before row b by the keys in turn.
RECURSIVE OrderByPrecedes(_, _, _)
OrderByPrecedes(order_by, a, b) ==
    IF order_by = <<>> THEN FALSE
    ELSE \/ KeyPrecedes(Head(order_by), a, b)
         \/ /\ ~KeyPrecedes(Head(order_by), b, a)
            /\ OrderByPrecedes(Tail(order_by), a, b)

\* Every order a result set can come in: each row once, and no row placed
\* after one it has to precede.  Rows the ORDER BY does not tell apart come
\* in any order.
Orderings(rows, order_by) ==
    {o \in [1..Cardinality(rows) -> rows] :
        /\ \A i, j \in DOMAIN o : i # j => o[i] # o[j]
        /\ \A i, j \in DOMAIN o :
             i < j => ~OrderByPrecedes(order_by, o[j], o[i])}

\* select(SupportTicket).where(user_id == ...).order_by(desc(created_at))
get_user_tickets(db, user_id) ==
    Orderings({db.tickets[i] : i \in {j \in DOMAIN db.tickets :
                                        db.tickets[j].user_id = user_id}},
              <<[column |-> "created_at", modifiers |-> <<"DESC">>]>>)

\* str.lower() on the letters that occur
Lower(ch) ==
    CASE ch = "H" -> "h"
      [] ch = "I" -> "i"
      [] OTHER -> ch

\* str.strip()
RECURSIVE StripLeft(_)
StripLeft(text) ==
    IF text # <<>> /\ Head(text) = " " THEN StripLeft(Tail(text)) ELSE text
RECURSIVE StripRight(_)
StripRight(text) ==
    IF text # <<>> /\ text[Len(text)] = " "
    THEN StripRight(SubSeq(text, 1, Len(text) - 1))
    ELSE text
Strip(text) == StripRight(StripLeft(text))

\* text ILIKE pattern: "%" stands for any run of characters, "_" for any one
\* character, every other character for itself in either case.
RECURSIVE ILike(_, _)
ILike(text, pattern) ==
    IF pattern = <<>> THEN text = <<>>
    ELSE IF Head(pattern) = "%"
    THEN \/ ILike(text, Tail(pattern))
         \/ text # <<>> /\ ILike(Tail(text), pattern)
    ELSE /\ text # <<>>
         /\ Head(pattern) = "_" \/ Lower(Head(text)) = Lower(Head(pattern))
         /\ ILike(Tail(text), Tail(pattern))

\* The filters of get_tickets_paginated, combined with AND.
PaginatedFilter(row, q) ==
    /\ q.status # NoneStr => row.status = q.status
    /\ q.is_starred # "None" => row.is_starred = (q.is_starred = "True")
    /\ q.search_query # <<>>
         => ILike(row.subject, <<"%">> \o Strip(q.search_query) \o <<"%">>)

\* .offset(offset).limit(limit)
OffsetLimit(rows, offset, limit) ==
    IF offset >= Len(rows) THEN <<>>
    ELSE SubSeq(rows, offset + 1, Min(offset + limit, Len(rows)))

PaginatedOffset(q) == Max(q.page - 1, 0) * q.per_page

\* Every (tickets, total) that get_tickets_paginated can return from db.
get_tickets_paginated(db, q) ==
    LET matching == {db.tickets[i] : i \in {j \in DOMAIN db.tickets :
                                       PaginatedFilter(db.tickets[j], q)}}
    IN {[tickets |-> OffsetLimit(o, PaginatedOffset(q), q.per_page),
         total |-> Cardinality(matching)] :
          o \in Orderings(matching, OrderBy)}

\* ------------------------------------------------------------ the service
Idle == [op |-> "idle"]
NoLocal ==
    [ticket |-> NoTicket, msg |-> NoMessage, deleted |-> 0, counts |-> <<>>,
     since |-> Null]
NoResult == [kind |-> "none"]
Returned(v) == [kind |-> "returned", value |-> v]
Raised(error) == [kind |-> "raised", error |-> error]

\* What is kept of a call once it is over.
Brief(c) ==
    [op |-> c.op,
     ticket_id |-> IF "ticket_id" \in DOMAIN c THEN c.ticket_id ELSE Null]

InitTables ==
    /\ tickets = <<>>
    /\ messages = <<>>
    /\ nextTicketId = 1
    /\ clock = 1
    /\ call = [p \in Procs |-> Idle]
    /\ pc = [p \in Procs |-> "idle"]
    /\ pend = [p \in Procs |-> <<>>]
    /\ local = [p \in Procs |-> NoLocal]
    /\ result = [p \in Procs |-> NoResult]

\* No conversation is followed: the slot is empty and no update comes.
NoFsm == [state |-> NoneStr, data |-> {}]
NoUpdates == [script |-> <<>>, next |-> 1]

\* SupportBotRunner.__init__
SupportBotRunner(token) ==
    [SUPPORT_BOT_TOKEN |-> token, bot |-> Null, dispatcher |-> Null,
     made |-> 0]

\* The runner as the service's specifications have it: made and never started.
NoRunner == SupportBotRunner(NoneStr)

InitBot == fsm = NoFsm /\ updates = NoUpdates /\ runner = NoRunner

Init == handlers = {"p1"} /\ InitTables /\ InitBot
InitConcurrent == handlers = Procs /\ InitTables /\ InitBot

\* The clock only moves forward.
Tick ==
    /\ clock < MaxClock
    /\ clock' = clock + 1
    /\ UNCHANGED <<handlers, runner, fsm, updates, tickets, messages, nextTicketId, call, pc, pend,
                   local, result>>

session_commit_first_write(p) ==
    ApplyAll(Committed,
             IF pend[p] = <<>> THEN <<>> ELSE <<Head(pend[p])>>)

\* session.commit(): every flushed write reaches the tables in one step.
session_commit(p) == ApplyAll(Committed, pend[p])

SessionExit_no_rollback(p, c, r, db) ==
    /\ tickets' = session_commit(p).tickets
    /\ messages' = session_commit(p).messages
    /\ pend' = [pend EXCEPT ![p] = <<>>]
    /\ result' = [result EXCEPT ![p] = r]
    /\ pc' = [pc EXCEPT ![p] = "done"]
    /\ call' = [call EXCEPT ![p] = Brief(c)]
    /\ local' = [local EXCEPT ![p] = NoLocal]

SessionExit_keeps_transaction(p, c, r, db) ==
    /\ tickets' = db.tickets
    /\ messages' = db.messages
    /\ pend' = pend
    /\ result' = [result EXCEPT ![p] = r]
    /\ pc' = [pc EXCEPT ![p] = "done"]
    /\ call' = [call EXCEPT ![p] = Brief(c)]
    /\ local' = [local EXCEPT ![p] = NoLocal]

\* The "async with" block of call c is left with r, the tables being db: the
\* session is closed, and whatever it had not committed is rolled back.
SessionExit(p, c, r, db) ==
    /\ tickets' = db.tickets
    /\ messages' = db.messages
    /\ pend' = [pend EXCEPT ![p] = <<>>]
    /\ result' = [result EXCEPT ![p] = r]
    /\ pc' = [pc EXCEPT ![p] = "done"]
    /\ call' = [call EXCEPT ![p] = Brief(c)]
    /\ local' = [local EXCEPT ![p] = NoLocal]

\* A statement of the open session fails (connectivity, timeout); the error
\* propagates to the caller.
StorageFailure(p) ==
    /\ pc[p] \notin {"idle", "done"}
    /\ SessionExit(p, call[p], Raised("StorageError"), Committed)
    /\ UNCHANGED <<nextTicketId, handlers, runner, fsm, updates, clock>>

\* -- create_ticket_with_message -------------------------------------------
\* Call c of create_ticket_with_message, up to the flush of the new ticket.
create_ticket_with_message_call(p, c) ==
    /\ nextTicketId <= TicketLimit
    /\ LET ticket == create_support_ticket(nextTicketId, c.user_id, c.subject,
                                           "normal", clock)
       IN /\ call' = [call EXCEPT ![p] = c]
          /\ pend' = [pend EXCEPT ![p] = <<InsertTicket(ticket)>>]
          /\ local' = [local EXCEPT ![p].ticket = ticket,
                                    ![p].since = clock]
    /\ nextTicketId' = nextTicketId + 1
    /\ pc' = [pc EXCEPT ![p] = "add_support_message"]
    /\ UNCHANGED <<tickets, messages, handlers, runner, clock, result>>

create_ticket_with_message_create(p) ==
    /\ pc[p] = "idle"
    /\ \E user_id \in UserIds, subject \in Subjects, message \in Contents,
          username \in Usernames :
        create_ticket_with_message_call(p,
            [op |-> "create_ticket_with_message",
             user_id |-> user_id, subject |-> subject,
             message |-> message, username |-> username])
    /\ UNCHANGED <<fsm, updates>>

SenderType_always_user(c) ==
    IF c.op = "add_admin_message" THEN "admin" ELSE "user"

\* The sender of the message each method adds.
SenderType(c) ==
    CASE c.op = "create_ticket_with_message" ->
           IF Truthy(c.user_id) THEN "user" ELSE "system"
      [] c.op = "add_user_message" -> "user"
      [] c.op = "add_admin_message" -> "admin"
SenderId(c) ==
    IF c.op = "add_admin_message" THEN c.admin_id ELSE c.user_id

AfterMessage_never_reopen(p) == "commit"

AfterMessage_any_sender_reopens(p) ==
    IF local[p].ticket.status = "closed"
    THEN "update_ticket_status"
    ELSE "commit"

\* After the message: add_user_message reopens a ticket it found closed.
AfterMessage(p) ==
    IF call[p].op = "add_user_message" /\ local[p].ticket.status = "closed"
    THEN "update_ticket_status"
    ELSE "commit"

\* The values "now = datetime.now(timezone.utc)" can have when a statement
\* runs: the clock is read when the await before it returns, the statement
\* reaches the database later, and it may have waited for a row lock.
NowValues(p) == local[p].since..clock

\* support_ticket_dal.add_support_message as called by the three methods
\* that add a message.  The INSERT of a message whose ticket is not there
\* is refused and the error leaves the method.
service_add_support_message(p) ==
    /\ pc[p] = "add_support_message"
    /\ MessageRows < MessageLimit
    /\ LET ticket_id == local[p].ticket.ticket_id
           db == View(p)
       IN IF ForeignKeyHolds(db, ticket_id)
          THEN /\ CanUpdate(p, ticket_id)
               /\ \E now \in NowValues(p) :
                     LET ws == add_support_message(db, ticket_id,
                                   SenderType(call[p]), SenderId(call[p]),
                                   call[p].message, call[p].username, now)
                     IN /\ pend' = [pend EXCEPT ![p] = @ \o ws]
                        /\ local' = [local EXCEPT
                                        ![p].msg = ws[1].row,
                                        ![p].since =
                                           IF AfterMessage(p) = "commit"
                                           THEN Null ELSE clock]
               /\ pc' = [pc EXCEPT ![p] = AfterMessage(p)]
               /\ UNCHANGED <<tickets, messages, call, result>>
          ELSE SessionExit(p, call[p], Raised("IntegrityError"), Committed)
    /\ UNCHANGED <<nextTicketId, handlers, runner, fsm, updates, clock>>

ReturnValue_deleted_unless_negative(p) ==
    CASE call[p].op \in {"add_user_message", "add_admin_message"} ->
           local[p].msg
      [] call[p].op \in {"update_status", "toggle_star", "assign"} ->
           local[p].ticket
      [] call[p].op = "delete_ticket" -> local[p].deleted >= 0

\* What each method returns once its commit went through.
ReturnValue(p) ==
    CASE call[p].op \in {"add_user_message", "add_admin_message"} ->
           local[p].msg
      [] call[p].op \in {"update_status", "toggle_star", "assign"} ->
           local[p].ticket
      [] call[p].op = "delete_ticket" -> local[p].deleted > 0

Commit(p) ==
    /\ pc[p] = "commit"
    /\ IF call[p].op = "create_ticket_with_message"
       THEN /\ tickets' = session_commit(p).tickets
            /\ messages' = session_commit(p).messages
            /\ pc' = [pc EXCEPT ![p] = "refresh"]
            /\ pend' = [pend EXCEPT ![p] = <<>>]
            /\ UNCHANGED <<call, local, result>>
       ELSE SessionExit(p, call[p], Returned(ReturnValue(p)),
                        session_commit(p))
    /\ UNCHANGED <<nextTicketId, handlers, runner, fsm, updates, clock>>

\* session.refresh(ticket) after the commit: the ticket is read again, in a
\* new transaction, and that is what the caller gets.
session_refresh(db, ticket) ==
    WithMessages(db, get_ticket_by_id(db, ticket.ticket_id))

create_ticket_with_message_refresh(p) ==
    /\ pc[p] = "refresh"
    /\ LET ticket == session_refresh(Committed, local[p].ticket)
       IN SessionExit(p, [op |-> call[p].op,
                          ticket_id |-> local[p].ticket.ticket_id],
                      IF ticket = NoTicket THEN Raised("InvalidRequestError")
                      ELSE Returned(ticket),
                      Committed)
    /\ UNCHANGED <<nextTicketId, handlers, runner, fsm, updates, clock>>

\* -- add_user_message / add_admin_message ---------------------------------
LookupOrReturnNone_no_check(p, c) ==
    /\ call' = [call EXCEPT ![p] = c]
    /\ local' = [local EXCEPT ![p].ticket = [ticket_id |-> c.ticket_id,
                                             status |-> "open"],
                              ![p].since = clock]
    /\ pc' = [pc EXCEPT ![p] = "add_support_message"]
    /\ UNCHANGED <<tickets, messages, pend, result>>

\* get_ticket_by_id, and the early return when there is no such ticket.
LookupOrReturnNone(p, c) ==
    LET ticket == get_ticket_by_id(View(p), c.ticket_id)
    IN IF ticket = NoTicket
       THEN SessionExit(p, c, Returned(NoMessage), Committed)
       ELSE /\ call' = [call EXCEPT ![p] = c]
            /\ local' = [local EXCEPT ![p].ticket = ticket,
                                      ![p].since = clock]
            /\ pc' = [pc EXCEPT ![p] = "add_support_message"]
            /\ UNCHANGED <<tickets, messages, pend, result>>

add_user_message_lookup(p) ==
    /\ pc[p] = "idle"
    /\ \E ticket_id \in TicketIdInputs, user_id \in UserIds,
          message \in Contents, username \in Usernames :
        LookupOrReturnNone(p, [op |-> "add_user_message",
                               ticket_id |-> ticket_id, user_id |-> user_id,
                               message |-> message, username |-> username])
    /\ UNCHANGED <<nextTicketId, handlers, runner, fsm, updates, clock>>

\* The policy rule: a user message on a ticket that was closed reopens it.
add_user_message_reopen(p) ==
    /\ pc[p] = "update_ticket_status"
    /\ \E now \in NowValues(p) :
          pend' = [pend EXCEPT ![p] =
                      @ \o update_ticket_status(View(p), call[p].ticket_id,
                                                "open", Null, now)]
    /\ local' = [local EXCEPT ![p].since = Null]
    /\ pc' = [pc EXCEPT ![p] = "commit"]
    /\ UNCHANGED <<tickets, messages, nextTicketId, handlers, runner, fsm, updates, clock, call,
                   result>>

add_admin_message_lookup(p) ==
    /\ pc[p] = "idle"
    /\ \E ticket_id \in TicketIdInputs, admin_id \in AdminIds,
          message \in Contents, username \in Usernames :
        LookupOrReturnNone(p, [op |-> "add_admin_message",
                               ticket_id |-> ticket_id, admin_id |-> admin_id,
                               message |-> message, username |-> username])
    /\ UNCHANGED <<nextTicketId, handlers, runner, fsm, updates, clock>>

\* -- update_status ---------------------------------------------------------
ticket_update_status_accepts_any(new_status) == TRUE

\* The web panel's status form: "if new_status not in {open, closed}: raise
\* HTTPBadRequest".  The bot's close and open callbacks pass the literals
\* "closed" and "open", which pass the same test.
ticket_update_status_accepts(new_status) == new_status \in {"open", "closed"}

\* update_status as its callers reach it: a status the front end refuses
\* never gets to the service.
\* Call c of update_status, up to its commit.
update_status_call(p, c) ==
    /\ c.ticket_id \in DOMAIN tickets => CanUpdate(p, c.ticket_id)
    /\ LET ws == update_ticket_status(View(p), c.ticket_id, c.new_status,
                                      c.admin_id, clock)
       IN /\ pend' = [pend EXCEPT ![p] = ws]
          /\ local' = [local EXCEPT ![p].ticket =
                          get_ticket_by_id(ApplyAll(Committed, ws),
                                           c.ticket_id)]
    /\ call' = [call EXCEPT ![p] = c]
    /\ pc' = [pc EXCEPT ![p] = "commit"]
    /\ UNCHANGED <<tickets, messages, result>>

update_status_update(p) ==
    /\ pc[p] = "idle"
    /\ \E ticket_id \in TicketIdInputs, new_status \in FormStatusValues,
          admin_id \in AdminIds :
        LET c == [op |-> "update_status", ticket_id |-> ticket_id,
                  new_status |-> new_status, admin_id |-> admin_id]
        IN IF ticket_update_status_accepts(new_status)
           THEN update_status_call(p, c)
           ELSE SessionExit(p, c, Raised("HTTPBadRequest"), Committed)
    /\ UNCHANGED <<nextTicketId, handlers, runner, fsm, updates, clock>>

\* -- toggle_star -----------------------------------------------------------
\* toggle_ticket_star up to "if not ticket: return None"
toggle_star_call(p, c) ==
    /\ LET ticket == get_ticket_by_id(View(p), c.ticket_id)
       IN /\ call' = [call EXCEPT ![p] = c]
          /\ local' = [local EXCEPT ![p].ticket = ticket]
          /\ pc' = [pc EXCEPT ![p] =
                       IF ticket = NoTicket THEN "commit" ELSE "flush_star"]
    /\ UNCHANGED <<tickets, messages, nextTicketId, clock,
                   handlers, runner, fsm, updates, pend, result>>

toggle_star_read(p) ==
    /\ pc[p] = "idle"
    /\ \E ticket_id \in TicketIdInputs, desired_state \in DesiredStates :
        toggle_star_call(p, [op |-> "toggle_star", ticket_id |-> ticket_id,
                             desired_state |-> desired_state])

\* ticket.is_starred = new_state; flush; refresh.  The flush writes the
\* value computed from the row as it was read; nothing is written when the
\* attribute did not change.  A row that is gone by now fails the call.
toggle_star_flush(p) ==
    /\ pc[p] = "flush_star"
    /\ LET ticket_id == call[p].ticket_id
           new_state == toggle_ticket_star_new_state(local[p].ticket,
                                                     call[p].desired_state)
           ws == IF new_state # local[p].ticket.is_starred
                 THEN <<UpdateTicket(ticket_id, [is_starred |-> new_state])>>
                 ELSE <<>>
       IN IF ticket_id \in DOMAIN tickets
          THEN /\ ws # <<>> => CanUpdate(p, ticket_id)
               /\ pend' = [pend EXCEPT ![p] = ws]
               /\ local' = [local EXCEPT ![p].ticket =
                               get_ticket_by_id(ApplyAll(Committed, ws),
                                                ticket_id)]
               /\ pc' = [pc EXCEPT ![p] = "commit"]
               /\ UNCHANGED <<tickets, messages, call, result>>
          ELSE SessionExit(p, call[p], Raised("StaleDataError"), Committed)
    /\ UNCHANGED <<nextTicketId, handlers, runner, fsm, updates, clock>>

\* -- assign ----------------------------------------------------------------
assign_update(p) ==
    /\ pc[p] = "idle"
    /\ \E ticket_id \in TicketIdInputs, admin_id \in AdminIds :
        /\ ticket_id \in DOMAIN tickets => CanUpdate(p, ticket_id)
        /\ LET ws == assign_ticket(View(p), ticket_id, admin_id, clock)
           IN /\ pend' = [pend EXCEPT ![p] = ws]
              /\ local' = [local EXCEPT ![p].ticket =
                              get_ticket_by_id(ApplyAll(Committed, ws),
                                               ticket_id)]
        /\ call' = [call EXCEPT ![p] =
                       [op |-> "assign", ticket_id |-> ticket_id,
                        admin_id |-> admin_id]]
    /\ pc' = [pc EXCEPT ![p] = "commit"]
    /\ UNCHANGED <<tickets, messages, nextTicketId, handlers, runner, fsm, updates, clock, result>>

\* -- delete_ticket ---------------------------------------------------------
\* Call c of delete_ticket, up to its commit.
delete_ticket_call(p, c) ==
    /\ c.ticket_id \in DOMAIN tickets => CanDelete(p, c.ticket_id)
    /\ LET ws == delete_ticket(View(p), c.ticket_id)
       IN /\ pend' = [pend EXCEPT ![p] = ws]
          /\ local' = [local EXCEPT ![p].deleted = Len(ws)]
    /\ call' = [call EXCEPT ![p] = c]
    /\ pc' = [pc EXCEPT ![p] = "commit"]
    /\ UNCHANGED <<tickets, messages, nextTicketId, handlers, runner, fsm, updates, clock, result>>

delete_ticket_delete(p) ==
    /\ pc[p] = "idle"
    /\ \E ticket_id \in TicketIdInputs :
        delete_ticket_call(p, [op |-> "delete_ticket",
                               ticket_id |-> ticket_id])

\* -- get_ticket ------------------------------------------------------------
\* The SELECT of get_ticket_by_id; no row, and the method returns None.
get_ticket_select(p) ==
    /\ pc[p] = "idle"
    /\ \E ticket_id \in TicketIdInputs :
        LET c == [op |-> "get_ticket", ticket_id |-> ticket_id]
            ticket == get_ticket_by_id(View(p), ticket_id)
        IN IF ticket = NoTicket
           THEN SessionExit(p, c, Returned(NoTicket), Committed)
           ELSE /\ call' = [call EXCEPT ![p] = c]
                /\ local' = [local EXCEPT ![p].ticket = ticket]
                /\ pc' = [pc EXCEPT ![p] = "selectinload"]
                /\ UNCHANGED <<tickets, messages, pend, result>>
    /\ UNCHANGED <<nextTicketId, handlers, runner, fsm, updates, clock>>

\* selectinload(SupportTicket.messages): a second SELECT brings the messages
\* of the row just read.
get_ticket_selectinload(p) ==
    /\ pc[p] = "selectinload"
    /\ SessionExit(p, call[p],
                   Returned(local[p].ticket
                            @@ [messages |->
                                  MessagesOf(View(p),
                                             local[p].ticket.ticket_id)]),
                   Committed)
    /\ UNCHANGED <<nextTicketId, handlers, runner, fsm, updates, clock>>

\* -- get_user_tickets ------------------------------------------------------
service_get_user_tickets(p) ==
    /\ pc[p] = "idle"
    /\ \E user_id \in UserIds :
        \E found \in get_user_tickets(View(p), user_id) :
            SessionExit(p, [op |-> "get_user_tickets"], Returned(found),
                        Committed)
    /\ UNCHANGED <<nextTicketId, handlers, runner, fsm, updates, clock>>

\* -- get_paginated ---------------------------------------------------------
\* The SELECT with the ORDER BY comes first; when the database refuses it
\* the error leaves the method.
get_paginated(p) ==
    /\ pc[p] = "idle"
    /\ \E q \in PaginatedInputs, verdict \in StatementVerdicts(OrderBy) :
        IF verdict = "refused"
        THEN SessionExit(p, [op |-> "get_paginated"],
                         Raised("ProgrammingError"), Committed)
        ELSE \E found \in get_tickets_paginated(View(p), q) :
                SessionExit(p, [op |-> "get_paginated"], Returned(found),
                            Committed)
    /\ UNCHANGED <<nextTicketId, handlers, runner, fsm, updates, clock>>

\* -- get_counts ------------------------------------------------------------
CountTickets_ignores_status(db, status) ==
    Cardinality(DOMAIN db.tickets)

\* select(func.count(ticket_id)).where(status == ...); NoneStr: no WHERE
CountTickets(db, status) ==
    Cardinality({i \in DOMAIN db.tickets :
                    status # NoneStr => db.tickets[i].status = status})

get_counts_open(p) ==
    /\ pc[p] = "idle"
    /\ call' = [call EXCEPT ![p] = [op |-> "get_counts"]]
    /\ local' = [local EXCEPT ![p].counts = <<CountTickets(View(p), "open")>>]
    /\ pc' = [pc EXCEPT ![p] = "count_closed"]
    /\ UNCHANGED <<tickets, messages, nextTicketId, handlers, runner, fsm, updates, clock, pend,
                   result>>

get_counts_closed(p) ==
    /\ pc[p] = "count_closed"
    /\ local' = [local EXCEPT ![p].counts =
                    Append(@, CountTickets(View(p), "closed"))]
    /\ pc' = [pc EXCEPT ![p] = "count_all"]
    /\ UNCHANGED <<tickets, messages, nextTicketId, handlers, runner, fsm, updates, clock, call,
                   pend, result>>

get_counts_all(p) ==
    /\ pc[p] = "count_all"
    /\ SessionExit(p, call[p],
                   Returned(Append(local[p].counts,
                                   CountTickets(View(p), NoneStr))),
                   Committed)
    /\ UNCHANGED <<nextTicketId, handlers, runner, fsm, updates, clock>>

\* The caller has taken the result; the handler is free for the next call.
Return(p) ==
    /\ pc[p] = "done"
    /\ call' = [call EXCEPT ![p] = Idle]
    /\ pc' = [pc EXCEPT ![p] = "idle"]
    /\ result' = [result EXCEPT ![p] = NoResult]
    /\ UNCHANGED <<tickets, messages, nextTicketId, clock,
                   handlers, runner, fsm, updates, pend, local>>

\* One statement of one handler.
Step(p) ==
    \/ create_ticket_with_message_create(p)
    \/ service_add_support_message(p)
    \/ Commit(p)
    \/ create_ticket_with_message_refresh(p)
    \/ add_user_message_lookup(p)
    \/ add_user_message_reopen(p)
    \/ add_admin_message_lookup(p)
    \/ update_status_update(p)
    \/ toggle_star_read(p)
    \/ toggle_star_flush(p)
    \/ assign_update(p)
    \/ delete_ticket_delete(p)
    \/ StorageFailure(p)
    \/ Return(p)

\* One statement of a handler that only reads.
ReadStep(p) ==
    \/ get_ticket_select(p)
    \/ get_ticket_selectinload(p)
    \/ service_get_user_tickets(p)
    \/ get_paginated(p)
    \/ get_counts_open(p)
    \/ get_counts_closed(p)
    \/ get_counts_all(p)

\* Calls one after the other, with the clock running.
Next ==
    \/ Tick
    \/ Step("p1")
    \/ ReadStep("p1")

Spec == Init /\ [][Next]_vars

\* The calls that write, of all handlers, interleaved statement by
\* statement; the clock stands still.
NextConcurrent == \E p \in Procs : Step(p)

SpecConcurrent == InitConcurrent /\ [][NextConcurrent]_vars

\* One handler calls get_counts while the other one writes.
NextCounts ==
    \/ Step("p1")
    \/ get_counts_open("p2")
    \/ get_counts_closed("p2")
    \/ get_counts_all("p2")
    \/ Return("p2")

SpecCounts == InitConcurrent /\ [][NextCounts]_vars

\* One handler adds messages while the other one writes, with the clock
\* running.
NextRace ==
    \/ Tick
    \/ Step("p1")
    \/ add_user_message_lookup("p2")
    \/ add_admin_message_lookup("p2")
    \/ service_add_support_message("p2")
    \/ add_user_message_reopen("p2")
    \/ Commit("p2")
    \/ Return("p2")

SpecRace == InitConcurrent /\ [][NextRace]_vars

\* ---------------------------------------------------------- the front ends
\* Who sends the update, and what the message carries.  A text or caption
\* that is missing counts like an empty one: both are false in "a or b".
Callers == {42, 7, 8}
MessageTexts == {<<>>, <<" ">>, <<"H", "i", " ">>}
Captions == {<<>>, <<"H", "i">>}
StateTicketIds == TicketIdInputs \cup {Null}

\* settings.support_admin_ids, settings.ADMIN_IDS, settings.PRIMARY_ADMIN_ID
support_admin_ids == {7}
ADMIN_IDS == {8}
PRIMARY_ADMIN_ID == 8

is_support_admin_no_check(user_id) == TRUE

is_support_admin(user_id) ==
    \/ user_id \in support_admin_ids
    \/ user_id \in ADMIN_IDS
    \/ Truthy(PRIMARY_ADMIN_ID) /\ user_id = PRIMARY_ADMIN_ID

\* a or b, on texts
Or(a, b) == IF a # <<>> THEN a ELSE b

\* (message.text or message.caption or "").strip()
TextOf(text, caption) == Strip(Or(Or(text, caption), <<>>))

\* The handler returns without a call to the service.
HandlerReturns(p, handler) ==
    /\ call' = [call EXCEPT ![p] = Brief([op |-> handler])]
    /\ pc' = [pc EXCEPT ![p] = "done"]
    /\ result' = [result EXCEPT ![p] = [kind |-> "answered"]]
    /\ UNCHANGED <<tickets, messages, nextTicketId, handlers, runner, fsm, updates, clock, pend,
                   local>>

\* The bot: the description of a new ticket has arrived.
description_received(p) ==
    /\ pc[p] = "idle"
    /\ \E caller \in Callers, subject \in Subjects, text \in MessageTexts,
          caption \in Captions :
        create_ticket_with_message_call(p,
            [op |-> "create_ticket_with_message", user_id |-> caller,
             subject |-> subject, message |-> TextOf(text, caption),
             username |-> NoneStr, via |-> "bot", caller |-> caller])
    /\ UNCHANGED <<fsm, updates>>

\* The bot: a user's reply to a ticket has arrived.
user_reply_received(p) ==
    /\ pc[p] = "idle"
    /\ \E caller \in Callers, ticket_id \in StateTicketIds,
          text \in MessageTexts, caption \in Captions :
        LET reply_text == TextOf(text, caption)
        IN IF ~Truthy(ticket_id) \/ reply_text = <<>>
           THEN HandlerReturns(p, "user_reply_received")
           ELSE /\ LookupOrReturnNone(p,
                       [op |-> "add_user_message", ticket_id |-> ticket_id,
                        user_id |-> caller, message |-> reply_text,
                        username |-> NoneStr, via |-> "bot",
                        caller |-> caller])
                /\ UNCHANGED <<nextTicketId, handlers, runner, fsm, updates, clock>>

\* The bot: an admin's reply to a ticket has arrived.
admin_reply_received(p) ==
    /\ pc[p] = "idle"
    /\ \E caller \in Callers, ticket_id \in StateTicketIds,
          text \in MessageTexts, caption \in Captions :
        LET reply_text == TextOf(text, caption)
        IN IF \/ ~is_support_admin(caller)
              \/ ~Truthy(ticket_id)
              \/ reply_text = <<>>
           THEN HandlerReturns(p, "admin_reply_received")
           ELSE /\ LookupOrReturnNone(p,
                       [op |-> "add_admin_message", ticket_id |-> ticket_id,
                        admin_id |-> caller, message |-> reply_text,
                        username |-> NoneStr, via |-> "bot",
                        caller |-> caller])
                /\ UNCHANGED <<nextTicketId, handlers, runner, fsm, updates, clock>>

\* The bot: the callbacks support:close:<id> and support:open:<id>.
router_close_ticket(p) ==
    /\ pc[p] = "idle"
    /\ \E caller \in Callers, ticket_id \in TicketIdInputs :
        update_status_call(p,
            [op |-> "update_status", ticket_id |-> ticket_id,
             new_status |-> "closed",
             admin_id |-> IF is_support_admin(caller) THEN caller ELSE Null,
             via |-> "bot", caller |-> caller])
    /\ UNCHANGED <<nextTicketId, handlers, runner, fsm, updates, clock>>

router_open_ticket(p) ==
    /\ pc[p] = "idle"
    /\ \E caller \in Callers, ticket_id \in TicketIdInputs :
        update_status_call(p,
            [op |-> "update_status", ticket_id |-> ticket_id,
             new_status |-> "open",
             admin_id |-> IF is_support_admin(caller) THEN caller ELSE Null,
             via |-> "bot", caller |-> caller])
    /\ UNCHANGED <<nextTicketId, handlers, runner, fsm, updates, clock>>

\* The bot: the callback support:star:<id>.
router_toggle_star(p) ==
    /\ pc[p] = "idle"
    /\ \E caller \in Callers, ticket_id \in TicketIdInputs :
        IF ~is_support_admin(caller)
        THEN HandlerReturns(p, "toggle_star")
        ELSE toggle_star_call(p,
                 [op |-> "toggle_star", ticket_id |-> ticket_id,
                  desired_state |-> NoneStr, via |-> "bot",
                  caller |-> caller])

\* The bot: the callback support:delete:<id>.
router_delete_ticket(p) ==
    /\ pc[p] = "idle"
    /\ \E caller \in Callers, ticket_id \in TicketIdInputs :
        IF ~is_support_admin(caller)
        THEN HandlerReturns(p, "delete_ticket")
        ELSE delete_ticket_call(p,
                 [op |-> "delete_ticket", ticket_id |-> ticket_id,
                  via |-> "bot", caller |-> caller])

\* The web panel, which has authenticated its user: the reply form.
ticket_reply(p) ==
    /\ pc[p] = "idle"
    /\ \E ticket_id \in TicketIdInputs, text \in MessageTexts :
        LET message == Strip(Or(text, <<>>))
        IN IF message = <<>>
           THEN HandlerReturns(p, "ticket_reply")
           ELSE /\ LookupOrReturnNone(p,
                       [op |-> "add_admin_message", ticket_id |-> ticket_id,
                        admin_id |-> Null, message |-> message,
                        username |-> NoneStr, via |-> "web",
                        caller |-> Null])
                /\ UNCHANGED <<nextTicketId, handlers, runner, fsm, updates, clock>>

\* The web panel: the delete form.
ticket_delete(p) ==
    /\ pc[p] = "idle"
    /\ \E ticket_id \in TicketIdInputs :
        delete_ticket_call(p, [op |-> "delete_ticket",
                               ticket_id |-> ticket_id,
                               via |-> "web", caller |-> Null])

\* The updates of the bot and the forms of the web panel, one after the
\* other, each one followed to the end of the call it makes.
NextFrontEnd ==
    \/ description_received("p1")
    \/ user_reply_received("p1")
    \/ admin_reply_received("p1")
    \/ router_close_ticket("p1")
    \/ router_open_ticket("p1")
    \/ router_toggle_star("p1")
    \/ router_delete_ticket("p1")
    \/ ticket_reply("p1")
    \/ ticket_delete("p1")
    \/ service_add_support_message("p1")
    \/ add_user_message_reopen("p1")
    \/ toggle_star_flush("p1")
    \/ Commit("p1")
    \/ create_ticket_with_message_refresh("p1")
    \/ Return("p1")

SpecFrontEnd == Init /\ [][NextFrontEnd]_vars

\* -- the bot's new-ticket conversation -----------------------------------
\* The dispatcher polls with its defaults: every update is handled in a task
\* of its own, and the memory storage keeps one slot per user without any
\* lock. A handler runs without interruption up to its first call that
\* really waits (the service, the answer to the user).
USER_MENU_NEW == <<"N", "e", "w">>
StartCommand == <<"/", "s", "t", "a", "r", "t">>
UpdateTexts == {StartCommand, USER_MENU_NEW, <<"H", "i", " ">>}
Scripts == UNION {[1..n -> UpdateTexts] : n \in 1..MaxUpdates}
ConversationUser == 42

waiting_for_subject == "SupportTicketStates:waiting_for_subject"
waiting_for_description == "SupportTicketStates:waiting_for_description"

\* state.update_data(subject=subject)
update_data(data, subject) ==
    {kv \in data : kv[1] # "subject"} \cup {<<"subject", subject>>}

\* data.get("subject")
GetSubject(data) ==
    IF \E kv \in data : kv[1] = "subject"
    THEN (CHOOSE kv \in data : kv[1] = "subject")[2]
    ELSE Null

\* state.clear()
Cleared == [state |-> NoneStr, data |-> {}]

\* The handler the router picks: the first registered one whose filter
\* passes, for the text of the update and the state of the slot.
HandlerOf(text, state) ==
    IF text = StartCommand THEN "start_handler"
    ELSE IF text = USER_MENU_NEW THEN "new_ticket_prompt"
    ELSE IF state = waiting_for_subject THEN "subject_received"
    ELSE IF state = waiting_for_description THEN "description_received"
    ELSE "unhandled"

InitConversation ==
    /\ handlers = Procs
    /\ InitTables
    /\ fsm = NoFsm
    /\ runner = NoRunner
    /\ \E script \in Scripts : updates = [script |-> script, next |-> 1]

NextUpdate == updates.script[updates.next]

\* A free task takes the next update, and the router picks the handler.
Dispatched(p, handler) ==
    /\ pc[p] = "idle"
    /\ updates.next <= Len(updates.script)
    /\ HandlerOf(NextUpdate, fsm.state) = handler
    /\ updates' = [updates EXCEPT !.next = @ + 1]

\* The handler answers the user and ends.
Answers(p, handler) ==
    /\ call' = [call EXCEPT ![p] = Brief([op |-> handler])]
    /\ pc' = [pc EXCEPT ![p] = "done"]
    /\ result' = [result EXCEPT ![p] = [kind |-> "answered"]]
    /\ UNCHANGED <<tickets, messages, nextTicketId, handlers, runner, clock, pend,
                   local>>

start_handler(p) ==
    /\ Dispatched(p, "start_handler")
    /\ Answers(p, "start_handler")
    /\ UNCHANGED fsm

\* No handler of the router takes the update.
Unhandled(p) ==
    /\ Dispatched(p, "unhandled")
    /\ Answers(p, "unhandled")
    /\ UNCHANGED fsm

new_ticket_prompt(p) ==
    /\ Dispatched(p, "new_ticket_prompt")
    /\ fsm' = [fsm EXCEPT !.state = waiting_for_subject]
    /\ Answers(p, "new_ticket_prompt")

subject_received(p) ==
    /\ Dispatched(p, "subject_received")
    /\ LET subject == Strip(Or(NextUpdate, <<>>))
       IN fsm' = [state |-> waiting_for_description,
                  data |-> update_data(fsm.data, subject)]
    /\ Answers(p, "subject_received")

\* description_received, up to the flush of the new ticket: the slot is
\* read, and the service is called.
conversation_description_received(p) ==
    /\ Dispatched(p, "description_received")
    /\ create_ticket_with_message_call(p,
           [op |-> "create_ticket_with_message",
            user_id |-> ConversationUser,
            subject |-> GetSubject(fsm.data),
            message |-> TextOf(NextUpdate, <<>>),
            username |-> NoneStr, via |-> "bot",
            caller |-> ConversationUser])
    /\ UNCHANGED fsm

\* description_received, after the service has returned the ticket:
\* state.clear(), and the answers. When the service has raised, the handler
\* ends with the error and the slot stays as it is.
description_received_clear(p) ==
    /\ pc[p] = "done"
    /\ call[p].op = "create_ticket_with_message"
    /\ fsm' = IF result[p].kind = "returned" THEN Cleared ELSE fsm
    /\ call' = [call EXCEPT ![p] = Idle]
    /\ pc' = [pc EXCEPT ![p] = "idle"]
    /\ result' = [result EXCEPT ![p] = NoResult]
    /\ UNCHANGED <<tickets, messages, nextTicketId, clock, handlers, runner,
                   updates, pend, local>>

\* Any other handler of the conversation ends.
conversation_return(p) ==
    /\ call[p].op # "create_ticket_with_message"
    /\ Return(p)

ConversationStep(p) ==
    \/ start_handler(p)
    \/ Unhandled(p)
    \/ new_ticket_prompt(p)
    \/ subject_received(p)
    \/ conversation_description_received(p)
    \/ service_add_support_message(p)
    \/ Commit(p)
    \/ create_ticket_with_message_refresh(p)
    \/ description_received_clear(p)
    \/ conversation_return(p)

NextConversation == \E p \in handlers : ConversationStep(p)

SpecConversation == InitConversation /\ [][NextConversation]_vars

\* -- the runner of the support bot ----------------------------------------
\* settings.SUPPORT_BOT_TOKEN: not set, empty, malformed, well formed
Tokens == {NoneStr, "", "bad", "123:ok"}

\* What an awaited call can end with: its value, an error, or the
\* cancellation of the task that waits.
AwaitOutcomes == {"returns", "Exception", "CancelledError"}

is_enabled(r) == r.SUPPORT_BOT_TOKEN \notin {NoneStr, ""}

InitRunner ==
    /\ handlers = Procs
    /\ InitTables
    /\ fsm = NoFsm
    /\ updates = NoUpdates
    /\ \E token \in Tokens : runner = SupportBotRunner(token)

\* The call ends with r; the runner is left as it is.
RunnerCallEnds(p, c, r) ==
    /\ call' = [call EXCEPT ![p] = c]
    /\ pc' = [pc EXCEPT ![p] = "done"]
    /\ result' = [result EXCEPT ![p] = r]

RunnerFrame ==
    UNCHANGED <<tickets, messages, nextTicketId, clock, handlers, fsm, updates,
                pend, local>>

\* start(), up to the awaited start_polling. Bot(token=...) raises on a
\* malformed token, before anything is assigned.
start_call(p) ==
    /\ pc[p] = "idle"
    /\ runner.made < MaxPairs
    /\ LET c == Brief([op |-> "start"])
       IN IF ~is_enabled(runner)
          THEN RunnerCallEnds(p, c, Returned(Null)) /\ UNCHANGED runner
          ELSE IF runner.bot # Null \/ runner.dispatcher # Null
          THEN RunnerCallEnds(p, c, Returned(Null)) /\ UNCHANGED runner
          ELSE IF runner.SUPPORT_BOT_TOKEN = "bad"
          THEN /\ RunnerCallEnds(p, c, Raised("TokenValidationError"))
               /\ UNCHANGED runner
          ELSE /\ runner' = [runner EXCEPT !.bot = runner.made + 1,
                                           !.dispatcher = runner.made + 1,
                                           !.made = runner.made + 1]
               /\ call' = [call EXCEPT ![p] = c]
               /\ pc' = [pc EXCEPT ![p] = "start_polling"]
               /\ UNCHANGED result
    /\ RunnerFrame

\* start_polling ends: it returns, the task is cancelled, or polling fails;
\* start logs and lets the error through.
start_polling(p) ==
    /\ pc[p] = "start_polling"
    /\ \E outcome \in AwaitOutcomes :
        RunnerCallEnds(p, call[p],
                       IF outcome = "returns" THEN Returned(Null)
                       ELSE Raised(outcome))
    /\ UNCHANGED runner
    /\ RunnerFrame

\* shutdown(): self._dispatcher = None; self._bot = None, and the return.
ResetAndReturn(p) ==
    /\ runner' = [runner EXCEPT !.dispatcher = Null, !.bot = Null]
    /\ RunnerCallEnds(p, Brief([op |-> "shutdown"]), Returned(Null))

\* An awaited call of shutdown() has ended with a cancellation, which
\* "except Exception" does not catch: shutdown() ends with it.
ShutdownCancelled(p) ==
    /\ RunnerCallEnds(p, Brief([op |-> "shutdown"]), Raised("CancelledError"))
    /\ UNCHANGED runner

\* shutdown() waits in the call named by position.
ShutdownWaits(p, position) ==
    /\ call' = [call EXCEPT ![p] = Brief([op |-> "shutdown"])]
    /\ pc' = [pc EXCEPT ![p] = position]
    /\ UNCHANGED <<runner, result>>

\* shutdown() from "if self._bot:" on.
ShutdownBot(p) ==
    IF runner.bot # Null THEN ShutdownWaits(p, "session_close")
    ELSE ResetAndReturn(p)

\* shutdown() from self._dispatcher.storage.close() on: without a
\* dispatcher the attribute error is caught and passed over.
ShutdownStorage(p) ==
    IF runner.dispatcher # Null THEN ShutdownWaits(p, "storage_close")
    ELSE ShutdownBot(p)

shutdown_call(p) ==
    /\ pc[p] = "idle"
    /\ IF runner.dispatcher # Null THEN ShutdownWaits(p, "emit_shutdown")
       ELSE ShutdownBot(p)
    /\ RunnerFrame

shutdown_emit_shutdown(p) ==
    /\ pc[p] = "emit_shutdown"
    /\ \E outcome \in AwaitOutcomes :
        IF outcome = "CancelledError" THEN ShutdownCancelled(p)
        ELSE ShutdownStorage(p)
    /\ RunnerFrame

shutdown_storage_close(p) ==
    /\ pc[p] = "storage_close"
    /\ \E outcome \in AwaitOutcomes :
        IF outcome = "CancelledError" THEN ShutdownCancelled(p)
        ELSE ShutdownBot(p)
    /\ RunnerFrame

shutdown_session_close(p) ==
    /\ pc[p] = "session_close"
    /\ \E outcome \in AwaitOutcomes :
        IF outcome = "CancelledError" THEN ShutdownCancelled(p)
        ELSE ResetAndReturn(p)
    /\ RunnerFrame

RunnerStep(p) ==
    \/ start_call(p)
    \/ start_polling(p)
    \/ shutdown_call(p)
    \/ shutdown_emit_shutdown(p)
    \/ shutdown_storage_close(p)
    \/ shutdown_session_close(p)
    \/ Return(p)

NextRunner == \E p \in handlers : RunnerStep(p)

SpecRunner == InitRunner /\ [][NextRunner]_vars

\* ------------------------------------------------------------- properties
CreateOp == "create_ticket_with_message"

\* The ticket has exactly one message, is open and has no closing time.
FreshTicket(t) ==
    Len(t.messages) = 1 /\ t.status = "open" /\ t.closed_at = Null

UserMessages(db, ticket_id) ==
    SelectSeq(MessagesOf(db, ticket_id), LAMBDA m : m.sender_type = "user")
AdminMessages(db, ticket_id) ==
    SelectSeq(MessagesOf(db, ticket_id), LAMBDA m : m.sender_type = "admin")

\* C1 as stated: every ticket create_ticket_with_message returns has exactly
\* one message, status open and closed_at null.
C1_ReturnedTicketIsFresh ==
    \A p \in Procs :
        (pc[p] = "done" /\ call[p].op = CreateOp
                        /\ result[p].kind = "returned")
        => FreshTicket(result[p].value)

\* C1, amended: the ticket create_ticket_with_message commits has exactly one
\* message, status open and closed_at null when its commit takes effect, and
\* what the call returns is that ticket as the tables hold it when it is read
\* again after the commit.
C1_CommittedTicketIsFresh ==
    [][\A p \in Procs :
        /\ (pc[p] = "commit" /\ call[p].op = CreateOp /\ pc'[p] = "refresh")
           => LET id == local[p].ticket.ticket_id
              IN /\ id \in DOMAIN tickets'
                 /\ FreshTicket(WithMessages(Committed', tickets'[id]))
        /\ (pc[p] = "refresh" /\ result'[p].kind = "returned")
           => LET id == local[p].ticket.ticket_id
              IN /\ id \in DOMAIN tickets
                 /\ result'[p].value = WithMessages(Committed, tickets[id])
      ]_vars

C1_Witness ==
    \E p \in Procs :
        /\ pc[p] = "done" /\ call[p].op = CreateOp
        /\ result[p].kind = "returned"
        /\ FreshTicket(result[p].value)

\* C2: in every committed state every ticket owns at least one message.
C2_TicketHasMessage ==
    \A id \in DOMAIN tickets : Len(MessagesOf(Committed, id)) >= 1

C2_Witness ==
    \E id \in DOMAIN tickets, p \in Procs :
        /\ Len(MessagesOf(Committed, id)) >= 1
        /\ pc[p] \notin {"idle", "done"}

\* C3: in every committed state closed_at is set exactly on closed tickets.
C3_ClosedAtIffClosed ==
    \A id \in DOMAIN tickets :
        (tickets[id].closed_at # Null) <=> (tickets[id].status = "closed")

C3_Witness ==
    \E id \in DOMAIN tickets, p \in Procs :
        /\ tickets[id].status = "closed" /\ tickets[id].closed_at # Null
        /\ pc[p] = "update_ticket_status"

\* C4: when add_user_message found the ticket closed, its commit appends the
\* user message and leaves the ticket open with closed_at null.
C4_UserMessageReopens ==
    [][\A p \in Procs :
        (pc[p] = "commit" /\ call[p].op = "add_user_message"
                          /\ result'[p].kind = "returned"
                          /\ local[p].ticket.status = "closed")
        => LET id == call[p].ticket_id
           IN /\ id \in DOMAIN tickets'
              /\ tickets'[id].status = "open"
              /\ tickets'[id].closed_at = Null
              /\ MessagesOf(Committed', id)
                   = Append(MessagesOf(Committed, id), local[p].msg)
              /\ local[p].msg.sender_type = "user"
      ]_vars

C4_Witness ==
    \E p \in Procs :
        /\ pc[p] = "commit" /\ call[p].op = "add_user_message"
        /\ local[p].ticket.status = "closed"
        /\ tickets[call[p].ticket_id].status = "closed"
        /\ View(p).tickets[call[p].ticket_id].status = "open"

\* C5: no step of add_admin_message changes the status or closed_at of any
\* ticket, and its commit appends one admin message.
C5_AdminMessageKeepsStatus ==
    [][\A p \in Procs :
        (call[p].op = "add_admin_message" /\ pc'[p] # pc[p])
        => /\ DOMAIN tickets' = DOMAIN tickets
           /\ \A id \in DOMAIN tickets :
                /\ tickets'[id].status = tickets[id].status
                /\ tickets'[id].closed_at = tickets[id].closed_at
           /\ (pc[p] = "commit" /\ result'[p].kind = "returned")
              => /\ messages' = Append(messages, local[p].msg)
                 /\ local[p].msg.sender_type = "admin"
                 /\ local[p].msg.ticket_id = call[p].ticket_id
      ]_vars

C5_Witness ==
    \E p \in Procs :
        /\ pc[p] = "commit" /\ call[p].op = "add_admin_message"
        /\ tickets[call[p].ticket_id].status = "closed"
        /\ Len(InsertsOf(p)) = 1

\* C6: last_user_message_at is set exactly on the tickets that own a message
\* of a user.
C6_LastUserMessageAt ==
    \A id \in DOMAIN tickets :
        (tickets[id].last_user_message_at # Null)
        <=> (UserMessages(Committed, id) # <<>>)

C6_Witness ==
    \E id \in DOMAIN tickets :
        /\ ~Truthy(tickets[id].user_id)
        /\ tickets[id].last_user_message_at # Null
        /\ UserMessages(Committed, id) # <<>>

\* C7: last_admin_message_at is set exactly on the tickets that own a message
\* of an admin.
C7_LastAdminMessageAt ==
    \A id \in DOMAIN tickets :
        (tickets[id].last_admin_message_at # Null)
        <=> (AdminMessages(Committed, id) # <<>>)

\* What the commit of create_ticket_with_message or add_user_message puts
\* into the tables, all of it in that one step: the message, the time stamps
\* of the message on its ticket, and the reopening of a ticket found closed.
WholeUnitCommitted(p) ==
    LET id == local[p].ticket.ticket_id
    IN /\ pc[p] = "commit"
       /\ id \in DOMAIN tickets'
       /\ MessagesOf(Committed', id)
            = Append(MessagesOf(Committed, id), local[p].msg)
       /\ tickets'[id].updated_at # Null
       /\ local[p].msg.sender_type = "user"
            => tickets'[id].last_user_message_at # Null
       /\ call[p].op = CreateOp => id \notin DOMAIN tickets
       /\ (call[p].op = "add_user_message"
             /\ local[p].ticket.status = "closed")
            => tickets'[id].status = "open"

\* C8: a step of create_ticket_with_message or add_user_message that ends in
\* an error leaves the committed tables as they were, and a step of theirs
\* that changes the committed tables is the commit of the whole unit.
C8_AllOrNothing ==
    [][\A p \in Procs :
        (call[p].op \in {CreateOp, "add_user_message"} /\ pc'[p] # pc[p])
        => /\ result'[p].kind = "raised"
                => (tickets' = tickets /\ messages' = messages
                                       /\ pend'[p] = <<>>)
           /\ (tickets' # tickets \/ messages' # messages)
                => WholeUnitCommitted(p)
      ]_vars

C8_Witness ==
    \E p \in Procs :
        /\ pc[p] = "done" /\ call[p].op = CreateOp
        /\ result[p] = Raised("StorageError")
        /\ nextTicketId > 1
        /\ DOMAIN tickets = {}
        /\ messages = <<>>

\* C9: no committed message references a ticket that is not there.
C9_NoOrphanMessage ==
    \A i \in 1..Len(messages) : messages[i].ticket_id \in DOMAIN tickets

C9_Witness ==
    \E p \in Procs :
        /\ pc[p] = "done"
        /\ call[p].op \in {"add_user_message", "add_admin_message"}
        /\ result[p] = Raised("IntegrityError")
        /\ call[p].ticket_id \notin DOMAIN tickets

\* C10: add_user_message and add_admin_message for a ticket id that has no
\* ticket return None at once, raise nothing and write nothing.
C10_AbsentTicketReturnsNone ==
    [][\A p \in Procs :
        (pc[p] = "idle"
           /\ call'[p].op \in {"add_user_message", "add_admin_message"}
           /\ call'[p].ticket_id \notin DOMAIN tickets)
        => /\ pc'[p] = "done"
           /\ result'[p] = Returned(NoMessage)
           /\ pend'[p] = <<>>
           /\ tickets' = tickets
           /\ messages' = messages
      ]_vars

C10_Witness ==
    \E p \in Procs :
        /\ pc[p] = "done"
        /\ call[p].op \in {"add_user_message", "add_admin_message"}
        /\ result[p] = Returned(NoMessage)
        /\ call[p].ticket_id \notin DOMAIN tickets

\* C11: update_status(closed) and then update_status(open) leave the ticket
\* open with closed_at null, and update_status with the status the ticket
\* already has leaves the status as it is and sets updated_at to the time of
\* the call.  The ticket the DAL hands back carries the time of the call;
\* the commit stores it.
C11_StatusRoundTrip ==
    [][\A p \in Procs :
        /\ (pc[p] = "idle" /\ pc'[p] = "commit"
               /\ call'[p].op = "update_status"
               /\ call'[p].ticket_id \in DOMAIN tickets)
           => /\ local'[p].ticket.updated_at = clock
              /\ local'[p].ticket.status = call'[p].new_status
        /\ (pc[p] = "commit" /\ call[p].op = "update_status"
               /\ result'[p].kind = "returned"
               /\ call[p].ticket_id \in DOMAIN tickets)
           => LET id == call[p].ticket_id
              IN /\ id \in DOMAIN tickets'
                 /\ tickets'[id].status = call[p].new_status
                 /\ tickets'[id].updated_at = local[p].ticket.updated_at
                 /\ call[p].new_status = "open"
                      => tickets'[id].closed_at = Null
                 /\ result'[p].value = tickets'[id]
      ]_vars

\* The second call of each pair is about to commit: open after closed, and
\* closed on a ticket that is closed, at a later time than the first call.
C11_Witness ==
    /\ \E id \in DOMAIN tickets :
         /\ pc["p1"] = "commit" /\ call["p1"] = [op |-> "update_status",
                ticket_id |-> id, new_status |-> "open", admin_id |-> Null]
         /\ tickets[id].status = "closed"
         /\ tickets[id].updated_at < local["p1"].ticket.updated_at
    /\ clock = MaxClock

\* A toggle_star call on an existing ticket commits and returns.
ToggleStarCommits(p) ==
    /\ pc[p] = "commit" /\ call[p].op = "toggle_star"
    /\ result'[p].kind = "returned"
    /\ call[p].ticket_id \in DOMAIN tickets

\* C12: with calls running one after the other, toggle_star without a
\* desired state leaves is_starred the opposite of what it was, so that two
\* such calls with nothing else on the ticket in between leave it as it was.
C12_ToggleTwiceRestores ==
    [][\A p \in Procs :
        (ToggleStarCommits(p) /\ call[p].desired_state = "None")
        => LET id == call[p].ticket_id
               once == toggle_ticket_star_new_state(tickets[id], "None")
               twice == toggle_ticket_star_new_state([is_starred |-> once],
                                                     "None")
           IN /\ id \in DOMAIN tickets'
              /\ tickets'[id].is_starred = ~tickets[id].is_starred
              /\ tickets'[id].is_starred = once
              /\ twice = tickets[id].is_starred
              /\ result'[p].value.is_starred = tickets'[id].is_starred
      ]_vars

\* The second toggle is about to commit: the ticket, unstarred when it was
\* created, is starred and is being unstarred.
C12_Witness ==
    \E id \in DOMAIN tickets :
        /\ pc["p1"] = "commit"
        /\ call["p1"] = [op |-> "toggle_star", ticket_id |-> id,
                         desired_state |-> "None"]
        /\ tickets[id].is_starred
        /\ ~View("p1").tickets[id].is_starred

\* C13: with calls running one after the other, toggle_star with a desired
\* state leaves is_starred equal to it whatever it was, and changes nothing
\* when is_starred already has that value.
C13_DesiredStateIsSet ==
    [][\A p \in Procs :
        (ToggleStarCommits(p) /\ call[p].desired_state # "None")
        => LET id == call[p].ticket_id
               desired == (call[p].desired_state = "True")
           IN /\ id \in DOMAIN tickets'
              /\ tickets'[id].is_starred = desired
              /\ result'[p].value.is_starred = desired
              /\ tickets[id].is_starred = desired => tickets' = tickets
      ]_vars

\* toggle_star(id, True) on a starred ticket and toggle_star(id, False) on
\* another one that is starred are in reach: here the first is about to
\* commit.
C13_Witness ==
    \E id \in DOMAIN tickets :
        /\ pc["p1"] = "commit"
        /\ call["p1"] = [op |-> "toggle_star", ticket_id |-> id,
                         desired_state |-> "True"]
        /\ tickets[id].is_starred
        /\ pend["p1"] = <<>>

\* needle occurs in text, letters compared without regard to case
ContainsIgnoreCase(text, needle) ==
    \E i \in 0..(Len(text) - Len(needle)) :
        \A k \in 1..Len(needle) : Lower(text[i + k]) = Lower(needle[k])

\* The row satisfies every filter the query supplies: the status, the star
\* flag, and the search text as a substring of the subject.
SatisfiesSupplied(row, q) ==
    /\ q.status # NoneStr => row.status = q.status
    /\ q.is_starred # "None" => row.is_starred = (q.is_starred = "True")
    /\ q.search_query # <<>> => ContainsIgnoreCase(row.subject, q.search_query)

\* The queries that can have brought the result a get_paginated call of p
\* has just returned.
PaginatedReturned(p) ==
    /\ pc[p] = "done" /\ call[p].op = "get_paginated"
    /\ result[p].kind = "returned"
QueriesOf(found) ==
    {q \in PaginatedInputs : found \in get_tickets_paginated(Committed, q)}

\* C14: whatever the tables hold and whatever filters are supplied,
\* get_paginated returns only tickets that satisfy every supplied filter, and
\* its total is the number of all tickets that satisfy them.
C14_OnlyMatchingTickets ==
    \A p \in Procs :
        PaginatedReturned(p)
        => \A q \in QueriesOf(result[p].value) :
            LET found == result[p].value
            IN /\ \A i \in DOMAIN found.tickets :
                    SatisfiesSupplied(found.tickets[i], q)
               /\ found.total = Cardinality({id \in DOMAIN tickets :
                                      SatisfiesSupplied(tickets[id], q)})

\* Row a has to come before row b in the order C15 describes.
ClaimedPrecedes(a, b) ==
    LET same_status == a.status = b.status
        same_star == same_status /\ a.is_starred = b.is_starred
        same_updated == same_star /\ a.updated_at = b.updated_at
    IN \/ a.status = "open" /\ b.status = "closed"
       \/ same_status /\ a.is_starred /\ ~b.is_starred
       \/ same_star /\ a.updated_at # Null
             /\ (b.updated_at = Null \/ a.updated_at > b.updated_at)
       \/ same_updated /\ a.created_at > b.created_at

\* C15: the tickets get_paginated returns come open before closed, then
\* starred first, then latest updated_at first with null last, then newest
\* created_at first.
C15_ClaimedOrder ==
    \A p \in Procs :
        PaginatedReturned(p)
        => LET found == result[p].value
           IN \A i, j \in DOMAIN found.tickets :
                i < j => ~ClaimedPrecedes(found.tickets[j], found.tickets[i])

TicketIds(rows) == {rows[i].ticket_id : i \in DOMAIN rows}

\* C16: for page >= 1 get_paginated returns at most per_page tickets, the
\* ones at places (page-1)*per_page .. page*per_page-1 of the filtered and
\* sorted list; the pages of one query, the tables unchanged, share no
\* ticket and together hold every matching ticket; and a page below 1 brings
\* what page 1 brings.
C16_PagesPartition ==
    \A p \in Procs :
        PaginatedReturned(p)
        => \A q \in QueriesOf(result[p].value) :
            LET found == result[p].value
                first == get_tickets_paginated(Committed,
                                               [q EXCEPT !.page = 1])
                second == get_tickets_paginated(Committed,
                                                [q EXCEPT !.page = 2])
            IN /\ Len(found.tickets) <= q.per_page
               /\ q.page >= 1
                    => Len(found.tickets)
                         = Max(0, Min(q.per_page,
                                      found.total
                                        - (q.page - 1) * q.per_page))
               /\ \A a \in first, b \in second :
                    /\ TicketIds(a.tickets) \cap TicketIds(b.tickets) = {}
                    /\ found.total <= 2 * q.per_page
                         => Cardinality(TicketIds(a.tickets)
                                          \cup TicketIds(b.tickets))
                              = found.total
               /\ get_tickets_paginated(Committed, [q EXCEPT !.page = 0])
                    = first

\* C17: delete_ticket on an existing ticket returns true and removes the
\* ticket and every message of it, the other tickets and their messages
\* staying as they are; get_ticket on an id that has no ticket returns
\* None; and the id stays without a ticket, because a ticket appears only
\* when the call that created it commits, under an id never handed out
\* before.
C17_DeleteRemovesTicket ==
    [][/\ \A p \in Procs :
            /\ (pc[p] = "idle" /\ pc'[p] = "commit"
                   /\ call'[p].op = "delete_ticket"
                   /\ call'[p].ticket_id \in DOMAIN tickets)
               => local'[p].deleted > 0
            /\ (pc[p] = "commit" /\ call[p].op = "delete_ticket"
                   /\ result'[p].kind = "returned"
                   /\ call[p].ticket_id \in DOMAIN tickets)
               => LET id == call[p].ticket_id
                  IN /\ result'[p].value = TRUE
                     /\ DOMAIN tickets' = DOMAIN tickets \ {id}
                     /\ \A other \in DOMAIN tickets' :
                          tickets'[other] = tickets[other]
                     /\ messages' = SelectSeq(messages,
                                        LAMBDA m : m.ticket_id # id)
            /\ (pc[p] = "idle" /\ call'[p].op = "get_ticket"
                   /\ call'[p].ticket_id \notin DOMAIN tickets)
               => result'[p] = Returned(NoTicket)
       /\ \A id \in DOMAIN tickets' \ DOMAIN tickets :
            \E p \in Procs :
                /\ pc[p] = "commit" /\ call[p].op = CreateOp
                /\ local[p].ticket.ticket_id = id
       /\ \A p \in Procs :
            (pc[p] = "idle" /\ call'[p].op = CreateOp)
            => /\ local'[p].ticket.ticket_id = nextTicketId
               /\ nextTicketId' > nextTicketId
      ]_vars

\* get_ticket has returned None for a ticket that was deleted, while the
\* other ticket still has its message.
C17_Witness ==
    /\ pc["p1"] = "done" /\ call["p1"].op = "get_ticket"
    /\ call["p1"].ticket_id < nextTicketId
    /\ call["p1"].ticket_id \notin DOMAIN tickets
    /\ result["p1"] = Returned(NoTicket)
    /\ DOMAIN tickets # {}
    /\ \A id \in DOMAIN tickets : Len(MessagesOf(Committed, id)) = 1

\* C18: the status of a ticket changes only from open to closed by the
\* commit of update_status(closed), and from closed to open by the commit of
\* update_status(open) or of add_user_message; no step of any other method,
\* reading or writing, changes a status.
C18_StatusTransitions ==
    [][\A id \in DOMAIN tickets \cap DOMAIN tickets' :
        tickets'[id].status # tickets[id].status
        => \E p \in Procs :
            /\ pc[p] = "commit" /\ pc'[p] = "done"
            /\ call[p].ticket_id = id
            /\ \/ /\ tickets[id].status = "open"
                  /\ tickets'[id].status = "closed"
                  /\ call[p].op = "update_status"
                  /\ call[p].new_status = "closed"
               \/ /\ tickets[id].status = "closed"
                  /\ tickets'[id].status = "open"
                  /\ \/ /\ call[p].op = "update_status"
                        /\ call[p].new_status = "open"
                     \/ call[p].op = "add_user_message"
      ]_vars

\* A ticket an admin closed is about to be reopened by the commit of a user
\* message.
C18_Witness ==
    /\ pc["p1"] = "commit" /\ call["p1"].op = "add_user_message"
    /\ local["p1"].ticket.status = "closed"
    /\ local["p1"].ticket.assigned_admin_id = 7
    /\ tickets[call["p1"].ticket_id].status = "closed"

\* C19: every ticket, committed or written by an open session, has status
\* open or closed.
C19_StatusIsOpenOrClosed ==
    \A p \in Procs :
        \A id \in DOMAIN View(p).tickets :
            View(p).tickets[id].status \in {"open", "closed"}

\* The web panel's form posted a status that is neither, for a ticket that
\* is there, and was refused.
C19_Witness ==
    \E p \in Procs :
        /\ pc[p] = "done" /\ call[p].op = "update_status"
        /\ result[p] = Raised("HTTPBadRequest")
        /\ call[p].ticket_id \in DOMAIN tickets
        /\ tickets[call[p].ticket_id].status = "closed"

\* C20: subject, user_id and created_at of a ticket are the ones it was
\* created with, and no step changes them.
C20_CreationFieldsKept ==
    [][/\ \A id \in DOMAIN tickets \cap DOMAIN tickets' :
            /\ tickets'[id].subject = tickets[id].subject
            /\ tickets'[id].user_id = tickets[id].user_id
            /\ tickets'[id].created_at = tickets[id].created_at
       /\ \A p \in Procs :
            (pc[p] = "commit" /\ pc'[p] = "refresh")
            => LET id == local[p].ticket.ticket_id
               IN /\ tickets'[id].subject = call[p].subject
                  /\ tickets'[id].user_id = call[p].user_id
                  /\ tickets'[id].created_at = local[p].ticket.created_at
      ]_vars

\* A ticket that has since been closed by an admin, starred and written to
\* at a later time than it was created.
C20_Witness ==
    \E id \in DOMAIN tickets :
        /\ tickets[id].status = "closed"
        /\ tickets[id].is_starred
        /\ tickets[id].assigned_admin_id = 7
        /\ tickets[id].updated_at > tickets[id].created_at
        /\ Len(MessagesOf(Committed, id)) = 2


\* The rows of s are the first rows of t, in the same order.
IsPrefix(s, t) == Len(s) <= Len(t) /\ SubSeq(t, 1, Len(s)) = s

\* C21: messages are append-only.  Whatever a step does, the committed
\* messages of the tickets that are still there afterwards are still there,
\* unchanged and in the same order, and anything new comes after them; so the
\* number of messages of a ticket that exists never decreases.
C21_MessagesAppendOnly ==
    [][/\ IsPrefix(SelectSeq(messages,
                             LAMBDA m : m.ticket_id \in DOMAIN tickets'),
                   messages')
       /\ \A id \in DOMAIN tickets \cap DOMAIN tickets' :
             Len(MessagesOf(Committed', id)) >= Len(MessagesOf(Committed, id))
      ]_vars

\* A second message is about to be committed on a ticket that has one.
C21_Witness ==
    \E p \in Procs :
        /\ pc[p] = "commit"
        /\ call[p].op \in {"add_user_message", "add_admin_message"}
        /\ Len(InsertsOf(p)) = 1
        /\ Len(MessagesOf(Committed, call[p].ticket_id)) = 1


\* C23: update_status writes assigned_admin_id when it is given an admin_id
\* and leaves it as it was when it is not; the reopening that
\* add_user_message does on a closed ticket leaves it as it was too.
C23_AssignedAdminOnStatusChange ==
    [][\A p \in handlers :
          /\ pc[p] = "commit" /\ result'[p].kind = "returned"
          /\ call[p].op \in {"update_status", "add_user_message"}
          /\ HoldsRowLock(p, call[p].ticket_id)
          => LET id == call[p].ticket_id
             IN /\ id \in DOMAIN tickets /\ id \in DOMAIN tickets'
                /\ tickets'[id].assigned_admin_id =
                      IF call[p].op = "update_status"
                         /\ call[p].admin_id # Null
                      THEN call[p].admin_id
                      ELSE tickets[id].assigned_admin_id
      ]_vars

\* update_status without an admin_id is about to be committed on a ticket
\* that is assigned.
C23_Witness ==
    \E p \in Procs :
        /\ pc[p] = "commit" /\ call[p].op = "update_status"
        /\ call[p].admin_id = Null
        /\ HoldsRowLock(p, call[p].ticket_id)
        /\ tickets[call[p].ticket_id].assigned_admin_id = 7


ByIdOps == {"update_status", "toggle_star", "assign", "delete_ticket"}

\* C25: update_status, toggle_star and assign on an id that has no ticket
\* return None, and delete_ticket returns False; the call writes nothing, so
\* no ticket is created and no ticket or message is changed by it.
C25_AbsentTicketNoEffect ==
    [][\A p \in handlers :
          /\ (/\ pc[p] = "idle" /\ pc'[p] = "commit"
              /\ call'[p].op \in ByIdOps
              /\ call'[p].ticket_id \notin DOMAIN tickets
              => /\ pend'[p] = <<>>
                 /\ local'[p].ticket = NoTicket
                 /\ local'[p].deleted = 0)
          /\ (/\ pc[p] = "commit" /\ result'[p].kind = "returned"
              /\ call[p].op \in ByIdOps
              /\ local[p].ticket = NoTicket /\ local[p].deleted = 0
              => /\ result'[p] = IF call[p].op = "delete_ticket"
                                 THEN Returned(FALSE)
                                 ELSE Returned(NoTicket)
                 /\ tickets' = tickets
                 /\ messages' = messages)
      ]_vars

\* delete_ticket of an id that has no ticket is about to return.
C25_Witness ==
    \E p \in Procs :
        /\ pc[p] = "commit" /\ call[p].op = "delete_ticket"
        /\ local[p].deleted = 0
        /\ call[p].ticket_id \notin DOMAIN tickets


\* C27: every method of the service works in the one session its
\* "async with" block opens, and the session is released however the block is
\* left.  A handler that has left a method holds no session and no flushed
\* write; a step that ends a method without its commit leaves the
\* committed tables as they were; and the committed tables change only by
\* the commit of a method, to what that method had flushed.
C27_SessionReleased ==
    [][\A p \in Procs :
          /\ pc'[p] \in {"idle", "done"}
               => pend'[p] = <<>> /\ local'[p] = NoLocal
          /\ (pc'[p] = "done" /\ pc[p] \notin {"done", "commit"})
               => tickets' = tickets /\ messages' = messages
          /\ (pc'[p] = "done" /\ result'[p].kind = "raised")
               => tickets' = tickets /\ messages' = messages
          /\ (pc'[p] # pc[p]
                /\ (tickets' # tickets \/ messages' # messages))
               => /\ pc[p] = "commit"
                  /\ tickets' = session_commit(p).tickets
                  /\ messages' = session_commit(p).messages
      ]_vars

\* delete_ticket has ended in an error after its DELETE, and the ticket is
\* still there.
C27_Witness ==
    /\ pc["p1"] = "done" /\ call["p1"].op = "delete_ticket"
    /\ result["p1"].kind = "raised"
    /\ call["p1"].ticket_id \in DOMAIN tickets
    /\ pend["p1"] = <<>>


\* The tickets are the same but for the given columns of ticket ticket_id.
SameExcept(old, new, ticket_id, columns) ==
    /\ DOMAIN new = DOMAIN old
    /\ \A id \in DOMAIN old : \A f \in DOMAIN old[id] :
          (id # ticket_id \/ f \notin columns) => new[id][f] = old[id][f]

\* C30: toggle_star changes is_starred of its ticket and nothing else;
\* assign changes assigned_admin_id and updated_at of its ticket and nothing
\* else, and without an admin_id it clears the assignment.  Every other
\* column, every other ticket and every message stay as they were.
C30_OnlyOwnColumnsChange ==
    [][\A p \in handlers :
          (pc[p] = "commit" /\ result'[p].kind = "returned")
          => /\ call[p].op = "toggle_star"
                  => /\ SameExcept(tickets, tickets', call[p].ticket_id,
                                   {"is_starred"})
                     /\ messages' = messages
             /\ call[p].op = "assign"
                  => /\ SameExcept(tickets, tickets', call[p].ticket_id,
                                   {"assigned_admin_id", "updated_at"})
                     /\ messages' = messages
                     /\ HoldsRowLock(p, call[p].ticket_id)
                          => tickets'[call[p].ticket_id].assigned_admin_id
                               = call[p].admin_id
      ]_vars

\* assign without an admin_id is about to be committed on a ticket that is
\* closed, starred and assigned.
C30_Witness ==
    \E p \in Procs :
        /\ pc[p] = "commit" /\ call[p].op = "assign"
        /\ call[p].admin_id = Null
        /\ HoldsRowLock(p, call[p].ticket_id)
        /\ tickets[call[p].ticket_id].assigned_admin_id = 7
        /\ tickets[call[p].ticket_id].status = "closed"
        /\ tickets[call[p].ticket_id].is_starred


\* The counts that get_counts has returned to handler p.
CountsReturned(p) ==
    /\ pc[p] = "done" /\ call[p].op = "get_counts"
    /\ result[p].kind = "returned"

\* The number of committed tickets with the given status.
WithStatus(status) ==
    Cardinality({id \in DOMAIN tickets : tickets[id].status = status})

\* C26 as claimed: in every result of get_counts the open count and the
\* closed count add up to the total, whatever is committed between the three
\* queries.
C26_CountsAddUp ==
    \A p \in Procs :
        CountsReturned(p)
        => result[p].value[1] + result[p].value[2] = result[p].value[3]

\* C26 as the code has it: each of the three counts is the number of
\* committed tickets (open, closed, all) at the time of its own query, and
\* the first two add up to the third when they still are the numbers of open
\* and of closed tickets at the time of the third query.
C26_EachCountAtItsQuery ==
    [][\A p \in handlers :
          /\ (pc[p] = "idle" /\ pc'[p] = "count_closed")
               => local'[p].counts = <<WithStatus("open")>>
          /\ (pc[p] = "count_closed" /\ pc'[p] = "count_all")
               => local'[p].counts
                    = Append(local[p].counts, WithStatus("closed"))
          /\ (pc[p] = "count_all" /\ result'[p].kind = "returned")
               => LET counts == result'[p].value
                  IN /\ counts = Append(local[p].counts,
                                        Cardinality(DOMAIN tickets))
                     /\ (counts[1] = WithStatus("open")
                           /\ counts[2] = WithStatus("closed"))
                          => counts[1] + counts[2] = counts[3]
      ]_vars

\* get_counts has returned (1, 1, 1): the one ticket there is was closed
\* between the first query and the second.
C26_Witness ==
    /\ CountsReturned("p2")
    /\ result["p2"].value = <<1, 1, 1>>


\* updated_at is not older than the other times of the ticket.
TimestampsOrdered(t) ==
    \A f \in {"last_user_message_at", "last_admin_message_at", "closed_at"} :
        t[f] # Null => (t.updated_at # Null /\ t.updated_at >= t[f])

\* The methods that set updated_at, and the ticket each one works on.
TouchOps ==
    {CreateOp, "add_user_message", "add_admin_message", "update_status",
     "assign"}
OpTicketId(p) ==
    IF call[p].op = CreateOp THEN local[p].ticket.ticket_id
    ELSE call[p].ticket_id

\* The time that the last UPDATE of p's session put into updated_at.
RECURSIVE LastUpdatedAt(_)
LastUpdatedAt(ws) ==
    IF ws = <<>> THEN Null
    ELSE LET w == ws[Len(ws)]
         IN IF w.kind = "update_ticket" /\ "updated_at" \in DOMAIN w.values
            THEN w.values.updated_at
            ELSE LastUpdatedAt(SubSeq(ws, 1, Len(ws) - 1))

\* C22 as claimed: with a clock that does not go back, updated_at of a
\* ticket never decreases and is never older than last_user_message_at,
\* last_admin_message_at or closed_at.
C22_UpdatedAtNeverOlder ==
    [][\A id \in DOMAIN tickets' :
          /\ TimestampsOrdered(tickets'[id])
          /\ id \in DOMAIN tickets
               => tickets'[id].updated_at >= tickets[id].updated_at
      ]_vars

\* C22 as the code has it: the commit of a message add, of update_status or
\* of assign on a ticket that is there leaves in updated_at the time that
\* the method read from the clock, which is not later than the commit; and
\* when that time is not earlier than the updated_at the ticket had, with the
\* ticket's times in order before, updated_at does not decrease and the
\* times are in order after.
C22_UpdatedAtIsOperationTime ==
    [][\A p \in handlers :
          /\ pc[p] = "commit" /\ pc'[p] \in {"refresh", "done"}
          /\ result'[p].kind # "raised"
          /\ call[p].op \in TouchOps
          /\ call[p].op = CreateOp \/ HoldsRowLock(p, OpTicketId(p))
          => LET id == OpTicketId(p)
                 now == LastUpdatedAt(pend[p])
             IN /\ id \in DOMAIN tickets'
                /\ now \in 1..clock
                /\ tickets'[id].updated_at = now
                /\ call[p].op = CreateOp => TimestampsOrdered(tickets'[id])
                /\ (/\ id \in DOMAIN tickets
                    /\ TimestampsOrdered(tickets[id])
                    /\ now >= tickets[id].updated_at)
                   => TimestampsOrdered(tickets'[id])
      ]_vars

\* A ticket whose updated_at is older than its closed_at: a message was
\* added with a time read before the closing and committed after it.
C22_Witness ==
    \E id \in DOMAIN tickets :
        /\ tickets[id].status = "closed"
        /\ tickets[id].updated_at < tickets[id].closed_at


\* The users for whom is_support_admin is meant to hold.
SupportAdmins == support_admin_ids \cup ADMIN_IDS \cup {PRIMARY_ADMIN_ID}

\* C28: through the bot, a ticket is deleted, a star is changed or an admin
\* message is added only for a caller who is a support admin: a call of
\* delete_ticket, toggle_star or add_admin_message that a bot handler has
\* made comes from one, and so does every commit of such a call that
\* changes the tables.
C28_AdminOnlyThroughBot ==
    [][\A p \in handlers :
          /\ call'[p].op \in {"delete_ticket", "toggle_star",
                               "add_admin_message"}
          /\ pc'[p] # "done"
          /\ call'[p].via = "bot"
          => call'[p].caller \in SupportAdmins
      ]_vars

\* An admin's star, sent through the bot, is about to be committed.
C28_Witness ==
    /\ pc["p1"] = "commit" /\ call["p1"].op = "toggle_star"
    /\ call["p1"].via = "bot" /\ call["p1"].caller = 7
    /\ pend["p1"] # <<>>

\* C29: no message that came through a front end has empty content.
C29_NoEmptyContent ==
    \A i \in 1..Len(messages) : messages[i].content # <<>>


\* The ticket is closed and has a user message newer than its closing.
ClosedWithNewerUserMessage(t) ==
    /\ t.status = "closed"
    /\ t.last_user_message_at # Null
    /\ t.last_user_message_at > t.closed_at

RECURSIVE SubjectsCreated(_, _, _)
SubjectsCreated(script, state, data) ==
    IF script = <<>> THEN <<>>
    ELSE LET handler == HandlerOf(Head(script), state)
         IN IF handler = "new_ticket_prompt"
            THEN SubjectsCreated(Tail(script), waiting_for_subject, data)
            ELSE IF handler = "subject_received"
            THEN SubjectsCreated(Tail(script), waiting_for_description,
                                 update_data(data, Strip(Head(script))))
            ELSE IF handler = "description_received"
            THEN <<GetSubject(data)>>
                 \o SubjectsCreated(Tail(script), NoneStr, {})
            ELSE SubjectsCreated(Tail(script), state, data)

\* The updates taken so far.
Taken == SubSeq(updates.script, 1, updates.next - 1)

\* C32: in the new-ticket conversation a ticket is created only from
\* waiting_for_description, which is reached only from waiting_for_subject,
\* which is entered only by the menu command; every ticket carries the
\* collected subject, and the tickets created are one per completed
\* subject-then-description sequence of the updates taken: after a ticket a
\* further message creates no second one.
C32_OneTicketPerSequence ==
    [][ /\ nextTicketId' # nextTicketId =>
            /\ fsm.state = waiting_for_description
            /\ \E p \in handlers :
                /\ pc[p] = "idle"
                /\ pc'[p] = "add_support_message"
                /\ call'[p].op = "create_ticket_with_message"
                /\ call'[p].subject = GetSubject(fsm.data)
        /\ (fsm'.state = waiting_for_description
            /\ fsm.state # waiting_for_description) =>
            fsm.state = waiting_for_subject
        /\ (fsm'.state = waiting_for_subject
            /\ fsm.state # waiting_for_subject) =>
            NextUpdate = USER_MENU_NEW
        /\ LET expected == SubjectsCreated(Taken', NoneStr, {})
           IN /\ nextTicketId' - 1 <= Len(expected)
              /\ \A id \in DOMAIN tickets' :
                    /\ id <= Len(expected)
                    /\ tickets'[id].subject = expected[id]
      ]_vars


\* A call of start() or shutdown() by p ends in this step.
CallEnds(p, op) ==
    /\ pc[p] # "done"
    /\ pc'[p] = "done"
    /\ call'[p].op = op

\* C33: the runner keeps at most one bot/dispatcher pair. A start() without
\* a token, or with a bot or a dispatcher set, changes nothing and returns;
\* any other start() that gets past the making of the bot sets a pair no
\* earlier start() had made, so also after a start() that has ended and a
\* shutdown(); every shutdown() that ends leaves both None; and the bot is
\* set exactly when the dispatcher is.
C33_OnePairStartShutdown ==
    [][ /\ \A p \in handlers :
            /\ (pc[p] = "idle" /\ call'[p].op = "start"
                /\ (~is_enabled(runner) \/ runner.bot # Null
                    \/ runner.dispatcher # Null)) =>
                    /\ runner' = runner
                    /\ pc'[p] = "done"
                    /\ result'[p] = Returned(Null)
            /\ (pc[p] = "idle" /\ call'[p].op = "start"
                /\ is_enabled(runner) /\ runner.bot = Null
                /\ runner.dispatcher = Null /\ pc'[p] # "done") =>
                    /\ runner'.bot = runner'.dispatcher
                    /\ runner'.bot > runner.made
                    /\ pc'[p] = "start_polling"
            /\ CallEnds(p, "shutdown") =>
                    /\ runner'.bot = Null
                    /\ runner'.dispatcher = Null
        /\ (runner'.bot = Null) <=> (runner'.dispatcher = Null)
      ]_vars

====
